---- MODULE Spec2Model ----
(***************************************************************************)
(* Model of the Cludz SDK: the constructors of the two clients (Cludz,      *)
(* Storage), the request dispatcher (Cludz._request), the resource-module  *)
(* methods that delegate to it (Tools.qr, Tasks.get, the Image methods),   *)
(* source resolution (Image.resolveImage, Storage.resolveFile), and the    *)
(* task poller (Tasks.waitFor).                                            *)
(*                                                                         *)
(* One SDK call is followed from its start to its end.  The remote server  *)
(* and the network are the environment: every fetch is answered by any     *)
(* response of a small set (or fails), after any delay of a small set.     *)
(***************************************************************************)
EXTENDS Integers, Sequences, FiniteSets, TLC

VARIABLES
    op,         \* the SDK call being followed, "none" before it starts
    pc,         \* position of the call
    now,        \* the clock, as Date.now() reads it (in the time unit of the model)
    start,      \* waitFor: const start = Date.now()
    interval,   \* waitFor: the interval argument
    timeout,    \* waitFor: the timeout argument
    response,   \* the HTTP response of the last fetch the call still holds
    outcome,    \* how the call ended: pending, a returned value or a thrown error
    fetches,    \* number of HTTP requests (fetch calls) the call has issued
    sleeps,     \* waitFor: number of setTimeout sleeps started
    exact,      \* history: so far every get took zero time, every sleep exactly its delay
    observed,   \* history: what each poll of the call observed, in order
    cludz,      \* the main client: its baseUrl and key, NoClient when there is none
    store,      \* the storage client: its api, id and token, NoClient when there is none
    given,      \* the options the constructor was called with
    args,       \* the arguments of the call being followed
    sent,       \* the HTTP requests the call has handed to fetch, in order
    reads,      \* number of local files the call has read
    bun,        \* the runtime: TRUE when the global Bun is defined, FALSE on Node
    polled,     \* history: the clock reading at which the latest poll of waitFor started
    calls       \* the locals of each of the concurrent waitFor calls on one client

clientVars == <<cludz, store, given, args, sent, reads, bun>>

vars == <<op, pc, now, start, interval, timeout, response, outcome, fetches, sleeps,
          exact, observed, cludz, store, given, args, sent, reads, bun, polled, calls>>

----------------------------------------------------------------------------
(* Bounds of the model. *)

MaxStart == 1
MaxInterval == 2
MaxTimeout == 3
MaxGetTime == 2
MaxOversleep == 1

\* The defaults of waitFor's parameters, in the model's time unit.
Starts == 0..MaxStart
Intervals == 1..MaxInterval
Timeouts == (-1)..MaxTimeout
GetTimes == 0..MaxGetTime
Oversleeps == 0..MaxOversleep

\* With interval >= 1 a call polls at most max(timeout, 0) times, so the guard
\* on fetches in LoopCheck never binds (FetchesBelowCap).
MaxPolls == MaxTimeout + 1

----------------------------------------------------------------------------
(* JavaScript values. *)

Null == [t |-> "null"]
Str(s) == [t |-> "string", v |-> s]

\* The truthiness JavaScript's || and && test: null, undefined and "" are falsy.
Truthy(x) == x.t = "string" /\ x.v /= ""

\* a || b || c, for a and b strings or null and c a non-empty string literal.
OrElse(a, b, c) == IF Truthy(a) THEN a.v ELSE IF Truthy(b) THEN b.v ELSE c

\* new Error(message), and the errors the platform raises.
Err(message) == [name |-> "Error", message |-> message]
TypeErr(what) == [name |-> "TypeError", message |-> what]
SyntaxErr == [name |-> "SyntaxError", message |-> "JSON Parse error"]
NetworkErr == [name |-> "TypeError", message |-> "fetch failed"]

\* The call has not ended yet.
Unsettled == [kind |-> "pending"]
Return(v) == [kind |-> "return", value |-> v]
Throw(e) == [kind |-> "throw", error |-> e]

----------------------------------------------------------------------------
(* Strings the code searches are sequences of characters. *)

\* String.prototype.includes: sub occurs in s at some position.
OccursAt(s, sub, i) == \A j \in 1..Len(sub) : s[i + j - 1] = sub[j]
Includes(s, sub) == \E i \in 1..(Len(s) - Len(sub) + 1) : OccursAt(s, sub, i)

ImageSlash == <<"i", "m", "a", "g", "e", "/">>
ApplicationPdf == <<"a", "p", "p", "l", "i", "c", "a", "t", "i", "o", "n", "/", "p", "d", "f">>

NoHeader == [present |-> FALSE]
Header(v) == [present |-> TRUE, value |-> v]

JsonHeader ==
    Header(<<"a", "p", "p", "l", "i", "c", "a", "t", "i", "o", "n", "/", "j", "s", "o", "n">>)

ContentTypes ==
    { NoHeader,
      JsonHeader,
      Header(<<"t", "e", "x", "t", "/", "h", "t", "m", "l">>),
      Header(ImageSlash \o <<"p", "n", "g">>),
      Header(ApplicationPdf \o <<";", "q", "=", "1">>) }

----------------------------------------------------------------------------
(* What the server can send. *)

Statuses == {200, 404, 500}

\* Response.ok
Ok(status) == status >= 200 /\ status <= 299

TaskStatuses == {"Pending", "Processing", "Completed", "Failed"}
TaskMessages == {Null, Str(""), Str("task message")}
TaskErrors == {Null, Str(""), Str("task error")}

\* TaskState: the fields waitFor reads (status, message, error); the others
\* are carried unread.
TaskStates ==
    [t : {"task"}, status : TaskStatuses, message : TaskMessages, error : TaskErrors]

Payload == [t |-> "payload"]

InvalidJson == [t |-> "invalid"]
EnvelopeMessages == {Null, Str(""), Str("server message")}
EnvelopeStatusMessages == {Null, Str(""), Str("Not Found")}

\* The bodies a response can carry: not JSON at all, the JSON value null, or a
\* JSON object, of which the code reads message, statusMessage and data.
Bodies(datas, messages, statusMessages) ==
    {InvalidJson, Null}
        \cup [t : {"object"}, message : messages, statusMessage : statusMessages,
              data : datas \cup {Null}]

Responses(datas, messages, statusMessages) ==
    [kind : {"http"}, contentType : ContentTypes, status : Statuses,
     body : Bodies(datas, messages, statusMessages)]

NoResponse == [kind |-> "none"]
\* fetch rejects: no response at all
NetworkFailure == [kind |-> "netfail"]

QrResponses ==
    Responses({Payload}, EnvelopeMessages, EnvelopeStatusMessages) \cup {NetworkFailure}
GetResponses ==
    Responses(TaskStates, {Null, Str("server message")}, {Null, Str("Not Found")})
        \cup {NetworkFailure}

----------------------------------------------------------------------------
(* Cludz._request, from the fetch on: what the call resolves or rejects with. *)

IsBinary(contentType) ==
    /\ contentType.present
    /\ contentType.value /= <<>>
    /\ (Includes(contentType.value, ImageSlash) \/ Includes(contentType.value, ApplicationPdf))

RawResponse(r) == [t |-> "Response", response |-> r]

ApiErrorMessage(status) == "API Error: " \o ToString(status)

\* data.message || data.statusMessage || `API Error: ${response.status}`
RequestErrorMessage(r) ==
    OrElse(r.body.message, r.body.statusMessage, ApiErrorMessage(r.status))

\* Mutant: response.ok tested before the body is parsed.
JsonPathStatusFirst(r) ==
    IF ~Ok(r.status)
    THEN IF r.body \in {InvalidJson, Null} THEN Throw(Err(ApiErrorMessage(r.status)))
         ELSE Throw(Err(RequestErrorMessage(r)))
    ELSE IF r.body = InvalidJson THEN Throw(SyntaxErr)
    ELSE Return(r.body)

JsonPath(r) ==
    IF r.body = InvalidJson THEN Throw(SyntaxErr)
    ELSE IF ~Ok(r.status)
         THEN IF r.body = Null
              THEN Throw(TypeErr("null is not an object (evaluating 'data.message')"))
              ELSE Throw(Err(RequestErrorMessage(r)))
         ELSE Return(r.body)

\* Mutant: response.ok tested before the content type.
_requestStatusFirst(r) ==
    IF r = NetworkFailure THEN Throw(NetworkErr)
    ELSE IF ~Ok(r.status) /\ r.body /= InvalidJson /\ r.body /= Null
         THEN Throw(Err(RequestErrorMessage(r)))
    ELSE IF IsBinary(r.contentType) THEN Return(RawResponse(r))
    ELSE JsonPath(r)

\* Mutant: a rejected fetch swallowed, the call resolving with undefined.
_requestSwallows(r) ==
    IF r = NetworkFailure THEN Return([t |-> "undefined"])
    ELSE IF IsBinary(r.contentType) THEN Return(RawResponse(r))
    ELSE JsonPath(r)

_request(r) ==
    IF r = NetworkFailure THEN Throw(NetworkErr)
    ELSE IF IsBinary(r.contentType) THEN Return(RawResponse(r))
    ELSE JsonPath(r)

\* Tasks.get and Tools.qr pass the dispatcher's promise through.
Get(r) == _request(r)
Qr(r) == _request(r)

----------------------------------------------------------------------------
(* More JavaScript values.  A string the code edits or tests character by  *)
(* character is a Text: a sequence of characters.                          *)

Undefined == [t |-> "undefined"]
Num(n) == [t |-> "number", v |-> n]
Bool(b) == [t |-> "boolean", v |-> b]
Text(cs) == [t |-> "text", cs |-> cs]

\* The test of if (x), !x and x || y: undefined, null, "", 0 and false are
\* falsy, every object is truthy.
JsTruthy(x) ==
    CASE x.t \in {"undefined", "null"} -> FALSE
      [] x.t = "string" -> x.v /= ""
      [] x.t = "text" -> x.cs /= <<>>
      [] x.t = "number" -> x.v /= 0
      [] x.t = "boolean" -> x.v
      [] OTHER -> TRUE

----------------------------------------------------------------------------
(* The constructors of Cludz and Storage. *)

\* Largest number of slashes an api option ends with.
MaxSlashes == 2

Slashes(n) == [i \in 1..n |-> "/"]
Host == <<"h">>
StoragePath == <<"/", "s", "t", "o", "r", "a", "g", "e", "/">>

\* The api option: left out, empty, slashes only, or an absolute URL, followed
\* by any number of slashes.
ApiOptions ==
    {Undefined}
        \cup { Text(Slashes(n)) : n \in 0..MaxSlashes }
        \cup { Text(Host \o Slashes(n)) : n \in 0..MaxSlashes }
KeyOptions == {Undefined, Text(<<>>), Text(<<"k">>)}
IdOptions == {Undefined, Text(<<>>), Text(<<"i">>)}
TokenOptions == {Undefined, Text(<<>>), Text(<<"t">>)}

\* CludzOptions and StorageOptions (timeout is read nowhere).
CludzOptions == [api : ApiOptions, key : KeyOptions]
StorageOptions == [api : ApiOptions, id : IdOptions, token : TokenOptions]

NoClient == [t |-> "none"]
NoOptions == [t |-> "none"]
NoArgs == [t |-> "none"]

\* s.replace(/\/$/, ""): a slash at the very end of s is removed, one only.
StripSlash(cs) ==
    IF cs /= <<>> /\ cs[Len(cs)] = "/" THEN SubSeq(cs, 1, Len(cs) - 1) ELSE cs

\* new Cludz(options): the instance, or the error thrown.
CludzConstructor(options) ==
    IF ~JsTruthy(options.api) THEN Throw(Err("API URL is required"))
    ELSE Return([t |-> "Cludz",
                 baseUrl |-> Text(StripSlash(options.api.cs)),
                 key |-> options.key])

\* Mutant: the token tested before the id.
StorageConstructorTokenFirst(options) ==
    IF ~JsTruthy(options.api) THEN Throw(Err("API URL is required"))
    ELSE IF ~JsTruthy(options.token) THEN Throw(Err("Token is required"))
    ELSE IF ~JsTruthy(options.id) THEN Throw(Err("Storage ID is required"))
    ELSE Return([t |-> "Storage",
                 api |-> Text(StripSlash(options.api.cs) \o StoragePath \o options.id.cs),
                 id |-> options.id,
                 token |-> options.token])

\* new Storage(options): the instance, or the error thrown.
StorageConstructor(options) ==
    IF ~JsTruthy(options.api) THEN Throw(Err("API URL is required"))
    ELSE IF ~JsTruthy(options.id) THEN Throw(Err("Storage ID is required"))
    ELSE IF ~JsTruthy(options.token) THEN Throw(Err("Token is required"))
    ELSE Return([t |-> "Storage",
                 api |-> Text(StripSlash(options.api.cs) \o StoragePath \o options.id.cs),
                 id |-> options.id,
                 token |-> options.token])

\* Mutant: a method that clears the key it has used.
ConfigForgotten ==
    /\ cludz' = IF cludz = NoClient THEN cludz ELSE [cludz EXCEPT !.key = Undefined]
    /\ store' = store

\* No method assigns baseUrl, key, api, id or token: the fields are readonly
\* and set in the constructors only.
ConfigKept == UNCHANGED <<cludz, store>>

\* The client the calls of Spec are made on.
DefaultOptions == [api |-> Text(Host \o Slashes(1)), key |-> Text(<<"k">>)]
DefaultClient == CludzConstructor(DefaultOptions).value

----------------------------------------------------------------------------
(* Cludz._request, up to the fetch: the request it hands to fetch. *)

\* Largest number of entries of a query.
MaxEntries == 2

\* value.toString() of the values a query carries.
ValueToString(x) ==
    CASE x.t = "string" -> x.v
      [] x.t = "number" -> ToString(x.v)
      [] x.t = "boolean" -> IF x.v THEN "true" ELSE "false"
      [] OTHER -> "[object Object]"

\* Mutant: the entry tested for truthiness.
IsPresentTruthy(value) == JsTruthy(value)

\* value !== undefined && value !== null
IsPresent(value) == value /= Undefined /\ value /= Null

\* Object.entries(options.query).forEach(...): one append per entry that is
\* present, in the order of the entries; params is url.searchParams so far.
RECURSIVE AppendEntries(_, _)
AppendEntries(params, entries) ==
    IF entries = <<>> THEN params
    ELSE LET key == Head(entries)[1]
             value == Head(entries)[2]
         IN AppendEntries(IF IsPresent(value)
                          THEN Append(params, <<key, ValueToString(value)>>)
                          ELSE params,
                          Tail(entries))

\* An object is the sequence of its entries, as Object.entries lists them.
JsObject(entries) == [t |-> "record", entries |-> entries]

\* new URL(href) accepts an absolute URL only: here one that starts with Host.
ParsesAsUrl(href) == Len(href) >= Len(Host) /\ SubSeq(href, 1, Len(Host)) = Host

\* url after the query is appended: the href given to new URL and the pairs
\* of its searchParams.
Url(baseUrl, endpoint, query) ==
    [href |-> baseUrl.cs \o endpoint,
     searchParams |-> IF JsTruthy(query) THEN AppendEntries(<<>>, query.entries) ELSE <<>>]

\* JSON.stringify of a primitive value.
Quote(s) == "\"" \o s \o "\""
StringifyValue(x) ==
    CASE x.t = "string" -> Quote(x.v)
      [] x.t = "number" -> ToString(x.v)
      [] x.t = "boolean" -> IF x.v THEN "true" ELSE "false"
      [] OTHER -> "null"

\* The members of an object, undefined ones left out.
RECURSIVE Members(_, _)
Members(entries, sep) ==
    IF entries = <<>> THEN ""
    ELSE LET key == Head(entries)[1]
             value == Head(entries)[2]
         IN IF value = Undefined THEN Members(Tail(entries), sep)
            ELSE sep \o Quote(key) \o ":" \o StringifyValue(value)
                     \o Members(Tail(entries), ",")

\* JSON.stringify(body)
Stringify(x) ==
    IF x.t = "record" THEN "{" \o Members(x.entries, "") \o "}" ELSE StringifyValue(x)

HeaderField(name, value) == [name |-> name, value |-> value]

\* Mutant: the key attached whenever one was given, empty or not.
SendsKeyIfGiven(key) == key /= Undefined

\* if (this.key)
SendsKey(key) == JsTruthy(key)

\* A body is serialized when it passes if (options.body) and is no FormData.
SendsJson(body) == JsTruthy(body) /\ body.t /= "FormData"

\* headers, as fetch receives them
Headers(key, body) ==
    {HeaderField("Accept", Str("application/json"))}
        \cup (IF SendsKey(key) THEN {HeaderField("X-API-Key", key)} ELSE {})
        \cup (IF SendsJson(body) THEN {HeaderField("Content-Type", Str("application/json"))}
              ELSE {})

\* fetchOptions.body: left out, the FormData itself, or the JSON text
FetchBody(body) ==
    IF ~JsTruthy(body) THEN Undefined
    ELSE IF body.t = "FormData" THEN body
    ELSE Str(Stringify(body))

\* options.method || "GET"
Method(method) == IF JsTruthy(method) THEN method.v ELSE "GET"

\* The request a _request call hands to fetch; new URL throws before
\* anything is sent when the href is no absolute URL.
RequestOf(client, endpoint, options) ==
    IF ~ParsesAsUrl(client.baseUrl.cs \o endpoint) THEN Throw(TypeErr("Invalid URL"))
    ELSE Return([url |-> Url(client.baseUrl, endpoint, options.query),
                 method |-> Method(options.method),
                 headers |-> Headers(client.key, options.body),
                 body |-> FetchBody(options.body)])

----------------------------------------------------------------------------
(* Source resolution: Image.resolveImage and Storage.resolveFile. *)

HttpPrefix == <<"h", "t", "t", "p", ":", "/", "/">>
HttpsPrefix == <<"h", "t", "t", "p", "s", ":", "/", "/">>

\* String.prototype.startsWith
StartsWith(cs, prefix) == Len(cs) >= Len(prefix) /\ SubSeq(cs, 1, Len(prefix)) = prefix

Blob(bytes) == [t |-> "Blob", bytes |-> bytes]
File(bytes, name) == [t |-> "File", bytes |-> bytes, name |-> name]
Buffer(bytes) == [t |-> "Buffer", bytes |-> bytes]
\* Bun.file(path): a handle on the path; nothing is read until it is used.
BunFile(path) == [t |-> "BunFile", path |-> path]

\* What is on the disk under any readable path.
FileBytes == <<7, 7>>

\* The sources a caller passes: remote URLs, local paths (one of them begins
\* like a URL but in capitals, one is a prefix of "http://"), binary values,
\* and values of no supported type.
StringSources ==
    { Text(HttpPrefix \o <<"x">>),
      Text(HttpsPrefix \o <<"x">>),
      Text(<<"H", "T", "T", "P", ":", "/", "/", "x">>),
      Text(<<"h", "t", "t", "p">>),
      Text(<<"/", "a">>) }
BinarySources == { Blob(<<1, 2>>), File(<<3>>, <<"f">>), Buffer(<<4, 5>>) }
OtherSources == { Undefined, Null, Num(7), JsObject(<<>>) }
Sources == StringSources \cup BinarySources \cup OtherSources

\* How a read of a local path goes: the bytes are read, the read fails inside
\* the try block (the catch wraps the error), or, on Bun only, the promise
\* returned from inside the try block rejects after the function has returned
\* it (return without await: the catch does not see it).
ReadError == [name |-> "Error", message |-> "ENOENT: no such file or directory"]
Reads(isBun) == IF isBun THEN {"ok", "caught", "uncaught"} ELSE {"ok", "caught"}

InvalidImageSource ==
    Err("Invalid image source type. Supported: URL string, local path string, Buffer, or Blob/File.")
InvalidFileSource ==
    Err("Invalid file source type. Supported: local path string, Buffer, or Blob/File.")

Resolved(result, n) == [result |-> result, reads |-> n]

\* Mutant: only the "http://" prefix recognised.
IsRemoteHttpOnly(cs) == StartsWith(cs, HttpPrefix)

\* source.startsWith("http://") || source.startsWith("https://")
IsRemote(cs) == StartsWith(cs, HttpPrefix) \/ StartsWith(cs, HttpsPrefix)

\* Image.resolveImage(source): what it resolves or rejects with, and the
\* number of local files it read.
resolveImage(source, read) ==
    IF source.t = "text"
    THEN IF IsRemote(source.cs) THEN Resolved(Return(source), 0)
         ELSE CASE read = "ok" -> Resolved(Return(Blob(FileBytes)), 1)
                [] read = "caught" ->
                     Resolved(Throw(Err("Failed to read local image path: "
                                            \o ReadError.message)), 1)
                [] OTHER -> Resolved(Throw(ReadError), 1)
    ELSE IF source.t \in {"Blob", "File"} THEN Resolved(Return(source), 0)
    ELSE IF source.t = "Buffer" THEN Resolved(Return(Blob(source.bytes)), 0)
    ELSE Resolved(Throw(InvalidImageSource), 0)

DefaultName == <<"f", "i", "l", "e">>

\* source.split(/[\\/]/).pop() || "file": what follows the last separator.
LastSeparator(cs) ==
    IF \E i \in 1..Len(cs) : cs[i] \in {"/", "\\"}
    THEN CHOOSE i \in 1..Len(cs) :
            /\ cs[i] \in {"/", "\\"}
            /\ \A j \in (i + 1)..Len(cs) : cs[j] \notin {"/", "\\"}
    ELSE 0
BaseName(cs) ==
    LET segment == SubSeq(cs, LastSeparator(cs) + 1, Len(cs))
    IN IF segment = <<>> THEN DefaultName ELSE segment

\* The name of the File read on Node: taken from the path unless one is given.
ReadName(cs, fileName) == IF fileName = DefaultName THEN BaseName(cs) ELSE fileName

\* Mutant: a string with a URL prefix passed through, as resolveImage does.
resolveFileRemote(source, fileName, isBun, read) ==
    IF source.t = "text" /\ IsRemote(source.cs) THEN Resolved(Return(source), 0)
    ELSE IF source.t = "text"
    THEN IF isBun THEN Resolved(Return(BunFile(source.cs)), 0)
         ELSE IF read = "ok"
              THEN Resolved(Return(File(FileBytes, ReadName(source.cs, fileName))), 1)
              ELSE Resolved(Throw(Err("Failed to read local file path: "
                                          \o ReadError.message)), 1)
    ELSE IF source.t \in {"Blob", "File"} THEN Resolved(Return(source), 0)
    ELSE IF source.t = "Buffer" THEN Resolved(Return(Blob(source.bytes)), 0)
    ELSE Resolved(Throw(InvalidFileSource), 0)

\* Storage.resolveFile(source, fileName): on Bun a string gives a handle and
\* nothing is read yet; on Node the file is read.
resolveFile(source, fileName, isBun, read) ==
    IF source.t = "text"
    THEN IF isBun THEN Resolved(Return(BunFile(source.cs)), 0)
         ELSE IF read = "ok"
              THEN Resolved(Return(File(FileBytes, ReadName(source.cs, fileName))), 1)
              ELSE Resolved(Throw(Err("Failed to read local file path: "
                                          \o ReadError.message)), 1)
    ELSE IF source.t \in {"Blob", "File"} THEN Resolved(Return(source), 0)
    ELSE IF source.t = "Buffer" THEN Resolved(Return(Blob(source.bytes)), 0)
    ELSE Resolved(Throw(InvalidFileSource), 0)

----------------------------------------------------------------------------
(* The calls of the two clients, up to the fetch. *)

\* A call that has run up to its fetch, or ended before it; n local files
\* were read.
Started(request, n) ==
    [next |-> "fetch", outcome |-> Unsettled, sent |-> <<request>>, reads |-> n]
Ended(result, n) == [next |-> "done", outcome |-> result, sent |-> <<>>, reads |-> n]

\* _request(endpoint, options) up to the fetch
Request(client, endpoint, options, n) ==
    LET q == RequestOf(client, endpoint, options)
    IN IF q.kind = "throw" THEN Ended(q, n) ELSE Started(q.value, n)

FormData(parts) == [t |-> "FormData", parts |-> parts]
Part(name, value) == [name |-> name, value |-> value]
FilePart(name, value, filename) == [name |-> name, value |-> value, filename |-> filename]

ImageMethods == {"meme", "compress", "convert", "crop"}

\* The endpoint is a literal the code never looks into: one element of the
\* href.
ImageEndpoint(method) == <<"/v1/image/" \o method>>

\* The arguments after the source: meme("top text"), compress() with the
\* default quality, convert("png"), crop({left: 0, top: 0, width: 1, height: 1}).
MoreParts(method) ==
    CASE method = "meme" -> <<Part("top", Str("top text"))>>
      [] method = "compress" -> <<Part("quality", Str("80"))>>
      [] method = "convert" -> <<Part("format", Str("png"))>>
      [] OTHER -> <<Part("left", Str("0")), Part("top", Str("0")), Part("width", Str("1")),
                    Part("height", Str("1"))>>

\* formData of an image method: a string is appended as it is, a Blob under
\* the name image.png.
ImageForm(method, image) ==
    FormData(<<IF image.t = "text" THEN Part("image", image)
               ELSE FilePart("image", image, "image.png")>> \o MoreParts(method))

PostForm(formData) == [method |-> Str("POST"), query |-> Undefined, body |-> formData]

\* Mutant: the request issued without waiting for the source to resolve.
ImageMethodFetchFirst(client, method, source, read) ==
    LET r == resolveImage(source, read)
        q == Request(client, ImageEndpoint(method),
                     PostForm(FormData(MoreParts(method))), r.reads)
    IN IF r.result.kind = "throw" THEN [q EXCEPT !.next = "done", !.outcome = r.result]
       ELSE q

\* meme, compress, convert and crop: the source is resolved, then the form is
\* posted.
ImageMethod(client, method, source, read) ==
    LET r == resolveImage(source, read)
    IN IF r.result.kind = "throw" THEN Ended(r.result, r.reads)
       ELSE Request(client, ImageEndpoint(method),
                    PostForm(ImageForm(method, r.result.value)), r.reads)

\* Mutant: the path appended as it was given.
normalizePathAsGiven(p) == p

\* p.startsWith("/") ? p : `/${p}`
normalizePath(p) == IF StartsWith(p, <<"/">>) THEN p ELSE <<"/">> \o p

\* { Token: this.token, ...additional }
getHeaders(st, additional) ==
    { h \in {HeaderField("Token", st.token)} : \A a \in additional : a.name /= h.name }
        \cup additional

\* fileName || (fileObj instanceof File ? fileObj.name : "file")
FinalFileName(fileName, fileObj) ==
    IF JsTruthy(fileName) THEN fileName.cs
    ELSE IF fileObj.t = "File" THEN fileObj.name
    ELSE DefaultName

\* Storage.upload up to the fetch; fetch rejects, with nothing sent, a URL
\* that is not absolute.
Upload(st, targetDirectory, source, fileName, isBun, read) ==
    LET href == st.api.cs \o normalizePath(targetDirectory)
        r == resolveFile(source, IF fileName = Undefined THEN DefaultName ELSE fileName.cs,
                         isBun, read)
    IN IF r.result.kind = "throw" THEN Ended(r.result, r.reads)
       ELSE IF ~ParsesAsUrl(href) THEN Ended(Throw(TypeErr("Invalid URL")), r.reads)
       ELSE Started([url |-> [href |-> href, searchParams |-> <<>>],
                     method |-> "POST",
                     headers |-> getHeaders(st, {}),
                     body |-> FormData(<<FilePart("file", r.result.value,
                                                  FinalFileName(fileName, r.result.value))>>)],
                    r.reads)

\* response.statusText and response.text()
StatusText(status) ==
    CASE status = 200 -> "OK"
      [] status = 404 -> "Not Found"
      [] OTHER -> "Internal Server Error"
ResponseText(r) ==
    IF r.body = InvalidJson THEN "<html>"
    ELSE IF r.body = Null THEN "null"
    ELSE "{" \o Members(<<<<"message", r.body.message>>,
                          <<"statusMessage", r.body.statusMessage>>>>, "") \o "}"

\* Storage.upload from the fetch on
UploadResult(r) ==
    IF r = NetworkFailure THEN Throw(NetworkErr)
    ELSE IF ~Ok(r.status)
         THEN Throw(Err("Upload failed: " \o ToString(r.status) \o " " \o StatusText(r.status)
                            \o " - " \o ResponseText(r)))
    ELSE Return(Undefined)

\* The Storage operations that take a path and, some of them, a name.
StorageOps == {"delete", "createFolder", "createFile", "rename", "list", "download"}

\* method of the fetch options
StorageMethod(name) ==
    CASE name = "delete" -> "DELETE"
      [] name \in {"createFolder", "createFile"} -> "POST"
      [] name = "rename" -> "PUT"
      [] OTHER -> "GET"

\* body of the fetch options: JSON.stringify of the object literal, or none
StorageBody(name, arg) ==
    CASE name = "createFolder" ->
            Str(Stringify(JsObject(<<<<"type", Str("folder")>>, <<"name", arg>>>>)))
      [] name = "createFile" ->
            Str(Stringify(JsObject(<<<<"type", Str("file")>>, <<"name", arg>>>>)))
      [] name = "rename" -> Str(Stringify(JsObject(<<<<"new_name", arg>>>>)))
      [] OTHER -> Undefined

\* this.getHeaders() or this.getHeaders({ "Content-Type": "application/json" })
StorageHeaders(st, name) ==
    getHeaders(st, IF name \in {"createFolder", "createFile", "rename"}
                   THEN {HeaderField("Content-Type", Str("application/json"))}
                   ELSE {})

\* delete, createFolder, createFile, rename, list and download up to the
\* fetch; fetch rejects, with nothing sent, a URL that is not absolute.
StorageCall(st, name, path, arg) ==
    LET href == st.api.cs \o normalizePath(path)
    IN IF ~ParsesAsUrl(href) THEN Ended(Throw(TypeErr("Invalid URL")), 0)
       ELSE Started([url |-> [href |-> href, searchParams |-> <<>>],
                     method |-> StorageMethod(name),
                     headers |-> StorageHeaders(st, name),
                     body |-> StorageBody(name, arg)],
                    0)

\* The text before " failed: " in the error of each operation.
FailedPrefix(name) ==
    CASE name = "delete" -> "Delete"
      [] name = "createFolder" -> "Create folder"
      [] name = "createFile" -> "Create file"
      [] name = "rename" -> "Rename"
      [] name = "list" -> "List"
      [] OTHER -> "Download"

\* Mutant: a binary answer handed back whatever its status, as _request does.
StorageResultBinaryFirst(name, r) ==
    IF r = NetworkFailure THEN Throw(NetworkErr)
    ELSE IF IsBinary(r.contentType) THEN Return(Blob(r.body))
    ELSE IF ~Ok(r.status)
         THEN Throw(Err(FailedPrefix(name) \o " failed: " \o ToString(r.status) \o " "
                            \o StatusText(r.status) \o " - " \o ResponseText(r)))
    ELSE IF name = "list"
         THEN IF r.body = InvalidJson THEN Throw(SyntaxErr)
              ELSE IF r.body = Null
                   THEN Throw(TypeErr("null is not an object (evaluating 'json.data')"))
              ELSE Return(r.body.data)
    ELSE IF name = "download" THEN Return(Blob(r.body))
    ELSE Return(Undefined)

\* The operations from the fetch on: the !response.ok test, then list parses
\* the body and reads its data, download takes the body as a Blob, the others
\* return nothing.
StorageResult(name, r) ==
    IF r = NetworkFailure THEN Throw(NetworkErr)
    ELSE IF ~Ok(r.status)
         THEN Throw(Err(FailedPrefix(name) \o " failed: " \o ToString(r.status) \o " "
                            \o StatusText(r.status) \o " - " \o ResponseText(r)))
    ELSE IF name = "list"
         THEN IF r.body = InvalidJson THEN Throw(SyntaxErr)
              ELSE IF r.body = Null
                   THEN Throw(TypeErr("null is not an object (evaluating 'json.data')"))
              ELSE Return(r.body.data)
    ELSE IF name = "download" THEN Return(Blob(r.body))
    ELSE Return(Undefined)

----------------------------------------------------------------------------
(* The inputs of the calls. *)

KeyNames == <<"a", "b", "c", "d">>
QueryValues == {Undefined, Null, Num(0), Bool(FALSE), Str(""), Str("a"), JsObject(<<>>)}

\* The queries: up to MaxEntries entries, under the keys a, b, ... in order.
Queries ==
    UNION { { JsObject([i \in 1..n |-> <<KeyNames[i], f[i]>>]) : f \in [1..n -> QueryValues] } :
            n \in 0..MaxEntries }

SomeForm == FormData(<<Part("image", Text(HttpPrefix \o <<"x">>))>>)
RequestBodies ==
    { Undefined, Null, Num(0), Str(""), Bool(FALSE), Num(7), Str("a"), Bool(TRUE),
      JsObject(<<<<"id", Num(7)>>, <<"skip", Undefined>>, <<"name", Str("n")>>>>),
      SomeForm }
Methods == {Undefined, Str("GET"), Str("POST"), Str("DELETE")}

\* The options of the _request calls followed: a query alone, or a body and a
\* method.
RequestCalls ==
    [method : {Undefined}, query : Queries \cup {Undefined}, body : {Undefined}]
        \cup [method : Methods, query : {Undefined}, body : RequestBodies]

Endpoint == <<"/v1/test">>
Directories == { <<"/", "d">>, <<"d">> }
FileNames == { Undefined, Text(<<"n">>) }

\* The responses the calls of ClientSpec are answered with: a success and an
\* error in JSON, a JSON response whose body does not parse, a binary
\* response, a network failure.
ClientResponses ==
    { r \in QrResponses :
        \/ r = NetworkFailure
        \/ /\ r.contentType = Header(ImageSlash \o <<"p", "n", "g">>)
           /\ r.status = 200
           /\ r.body = InvalidJson
        \/ /\ r.contentType = JsonHeader
           /\ r.status = 500
           /\ r.body = InvalidJson
        \/ /\ r.contentType = JsonHeader
           /\ r.body \notin {InvalidJson, Null}
           /\ r.body.statusMessage = Null
           /\ \/ r.status = 200 /\ r.body.message = Null /\ r.body.data = Payload
              \/ r.status = 404 /\ r.body.message = Str("server message")
                   /\ r.body.data = Null }

\* The folderName, fileName and newName arguments.
NewNames == {Str("n")}

\* The responses a Storage call is answered with: every content type and
\* status, with a body that is not JSON, the JSON null, or a JSON object.
StorageResponses ==
    { r \in QrResponses :
        \/ r = NetworkFailure
        \/ \/ r.body \in {InvalidJson, Null}
           \/ /\ r.body.message = Null
              /\ r.body.statusMessage = Null
              /\ r.body.data = Payload }

\* The concurrent calls followed, and the locals of a waitFor invocation: its
\* position, the parameters, the const start, the time its timer is set for,
\* what it settled with; then history: the polls and sleeps it made, the clock
\* reading start was set from, the readings of its loop tests and the
\* responses its gets received.
Callers == {"first", "second"}
NotCalled ==
    [pc |-> "idle", start |-> 0, interval |-> 0, timeout |-> 0, wake |-> 0,
     outcome |-> Unsettled, fetches |-> 0, sleeps |-> 0, began |-> 0, clocks |-> <<>>,
     answers |-> <<>>]
NoCalls == [c \in Callers |-> NotCalled]

----------------------------------------------------------------------------
Init ==
    /\ op = "none"
    /\ pc = "idle"
    /\ now \in Starts
    /\ start = 0
    /\ interval = 0
    /\ timeout = 0
    /\ response = NoResponse
    /\ outcome = Unsettled
    /\ fetches = 0
    /\ sleeps = 0
    /\ exact = TRUE
    /\ observed = <<>>
    /\ cludz = DefaultClient
    /\ store = NoClient
    /\ given = DefaultOptions
    /\ args = NoArgs
    /\ sent = <<>>
    /\ reads = 0
    /\ bun = TRUE
    /\ polled = 0
    /\ calls = NoCalls

----------------------------------------------------------------------------
(* Tasks.waitFor *)

Elapsed == now - start

\* Mutant: the comparison of the loop condition turned round.
LoopContinuesInverted(elapsed, t) == elapsed > t

\* Mutant: the loop entered when the elapsed time equals the timeout.
LoopContinuesInclusive(elapsed, t) == elapsed <= t

\* while (Date.now() - start < timeout)
LoopContinues(elapsed, t) == elapsed < t

\* Mutant: the unit left out of the message.
TimeoutMessageNoUnit(t) == "Task timeout after " \o ToString(t)

\* `Task timeout after ${timeout}ms`
TimeoutMessage(t) == "Task timeout after " \o ToString(t) \o "ms"

\* Mutant: the error field tried before the message field.
TaskFailedMessageErrorFirst(task) == OrElse(task.error, task.message, "Task failed")

\* task.message || task.error || "Task failed"
TaskFailedMessage(task) == OrElse(task.message, task.error, "Task failed")

\* Mutant: the timer set to twice the interval.
SleepDelayDouble(i) == 2 * i

\* setTimeout(resolve, interval): the delay asked for
SleepDelay(i) == i

\* Mutant: the whole ApiResponse returned instead of its data.
OnCompletedEnvelope(resp) == Return(resp)

\* if (task.status === "Completed") return task
OnCompleted(resp) == Return(resp.data)

\* Mutant: a Failed task returned like a Completed one.
OnFailedReturns(resp) == Return(resp.data)

\* if (task.status === "Failed") throw new Error(...)
OnFailed(resp) == Throw(Err(TaskFailedMessage(resp.data)))

\* Mutant: a rejected get swallowed and polled again after the sleep.
OnRejectedRetry(g) == [next |-> "sleep", outcome |-> Unsettled]

\* get rejects: the await rethrows and nothing in waitFor catches it.
OnRejected(g) == [next |-> "done", outcome |-> g]

\* What get resolved with is a well-formed ApiResponse<TaskState>.
HasSnapshot(g) ==
    /\ g.kind = "return"
    /\ g.value /= Null
    /\ g.value.t = "object"
    /\ g.value.data /= Null

\* Mutant: a poll that finds the task in progress goes on to the next poll
\* without sleeping.
PollNoSleep(g) ==
    IF g.kind = "throw" THEN OnRejected(g)
    ELSE IF g.value = Null
         THEN [next |-> "done",
               outcome |-> Throw(TypeErr("null is not an object (evaluating 'resp.data')"))]
    ELSE IF g.value.t /= "object" \/ g.value.data = Null
         THEN [next |-> "done",
               outcome |-> Throw(TypeErr("undefined is not an object (evaluating 'task.status')"))]
    ELSE IF g.value.data.status = "Completed"
         THEN [next |-> "done", outcome |-> OnCompleted(g.value)]
    ELSE IF g.value.data.status = "Failed"
         THEN [next |-> "done", outcome |-> OnFailed(g.value)]
    ELSE [next |-> "check", outcome |-> Unsettled]

\* One loop body from the point where get settles: g is what get resolved or
\* rejected with.  Gives where the call goes and, when it ends, how.  When resp
\* is null, or has no task in data (a raw Response has no data field), reading
\* resp.data or task.status raises a TypeError.
Poll(g) ==
    IF g.kind = "throw" THEN OnRejected(g)
    ELSE IF g.value = Null
         THEN [next |-> "done",
               outcome |-> Throw(TypeErr("null is not an object (evaluating 'resp.data')"))]
    ELSE IF g.value.t /= "object" \/ g.value.data = Null
         THEN [next |-> "done",
               outcome |-> Throw(TypeErr("undefined is not an object (evaluating 'task.status')"))]
    ELSE IF g.value.data.status = "Completed"
         THEN [next |-> "done", outcome |-> OnCompleted(g.value)]
    ELSE IF g.value.data.status = "Failed"
         THEN [next |-> "done", outcome |-> OnFailed(g.value)]
    ELSE [next |-> "sleep", outcome |-> Unsettled]

\* History only: the status a poll observed, "rejected" when get rejected and
\* "malformed" when it resolved with something that carries no task.
Observation(g) ==
    IF g.kind = "throw" THEN "rejected"
    ELSE IF HasSnapshot(g) THEN g.value.data.status
    ELSE "malformed"

WaitFor(i, t) ==
    /\ op = "none"
    /\ pc = "idle"
    /\ op' = "waitFor"
    /\ pc' = "check"
    /\ start' = now
    /\ interval' = i
    /\ timeout' = t
    /\ UNCHANGED <<now, response, outcome, fetches, sleeps, exact, observed>>
    /\ ConfigKept
    /\ UNCHANGED <<given, args, sent, reads, bun, polled, calls>>

\* The loop condition; when it holds the body starts with this.get(id), which
\* issues the fetch.
LoopCheck ==
    /\ op = "waitFor"
    /\ pc = "check"
    /\ IF LoopContinues(Elapsed, timeout)
       THEN /\ fetches < MaxPolls
            /\ pc' = "fetch"
            /\ fetches' = fetches + 1
            /\ polled' = now
            /\ UNCHANGED outcome
       ELSE /\ pc' = "done"
            /\ outcome' = Throw(Err(TimeoutMessage(timeout)))
            /\ UNCHANGED <<fetches, polled>>
    /\ UNCHANGED <<op, now, start, interval, timeout, response, sleeps, exact, observed>>
    /\ ConfigKept
    /\ UNCHANGED <<given, args, sent, reads, bun, calls>>

\* Mutant: the deadline tested again when the response arrives.
GetRespondsDeadline(d, r) ==
    /\ now' = now + d
    /\ LET g == Get(r)
           p == IF now + d - start >= timeout
                THEN [next |-> "done", outcome |-> Throw(Err(TimeoutMessage(timeout)))]
                ELSE Poll(g)
       IN /\ pc' = p.next
          /\ outcome' = p.outcome
          /\ response' = IF p.next = "done" THEN r ELSE NoResponse
          /\ sleeps' = IF p.next = "sleep" THEN sleeps + 1 ELSE sleeps
          /\ observed' = Append(observed, Observation(g))
    /\ exact' = (exact /\ d = 0)
    /\ UNCHANGED <<op, start, interval, timeout, fetches>>
    /\ ConfigKept
    /\ UNCHANGED <<given, args, sent, reads, bun, polled, calls>>

\* The fetch of a poll is answered with r (or fails) after d milliseconds.
GetResponds(d, r) ==
    /\ now' = now + d
    /\ LET g == Get(r)
           p == Poll(g)
       IN /\ pc' = p.next
          /\ outcome' = p.outcome
          /\ response' = IF p.next = "done" THEN r ELSE NoResponse
          /\ sleeps' = IF p.next = "sleep" THEN sleeps + 1 ELSE sleeps
          /\ observed' = Append(observed, Observation(g))
    /\ exact' = (exact /\ d = 0)
    /\ UNCHANGED <<op, start, interval, timeout, fetches>>
    /\ ConfigKept
    /\ UNCHANGED <<given, args, sent, reads, bun, polled, calls>>

GetRespondFrom(responses) ==
    /\ op = "waitFor"
    /\ pc = "fetch"
    /\ \E d \in GetTimes, r \in responses : GetResponds(d, r)

GetRespond == GetRespondFrom(GetResponses)

\* The timer fires: SleepDelay(interval) milliseconds after it was set, or
\* up to MaxOversleep later.
SleepDone ==
    /\ op = "waitFor"
    /\ pc = "sleep"
    /\ \E late \in Oversleeps :
          /\ now' = now + SleepDelay(interval) + late
          /\ exact' = (exact /\ late = 0)
    /\ pc' = "check"
    /\ UNCHANGED <<op, start, interval, timeout, response, outcome, fetches, sleeps, observed>>
    /\ ConfigKept
    /\ UNCHANGED <<given, args, sent, reads, bun, polled, calls>>

----------------------------------------------------------------------------
(* Tools.qr: one dispatcher call. *)

CallQr ==
    /\ op = "none"
    /\ pc = "idle"
    /\ op' = "qr"
    /\ pc' = "fetch"
    /\ fetches' = fetches + 1
    /\ UNCHANGED <<now, start, interval, timeout, response, outcome, sleeps, exact, observed>>
    /\ ConfigKept
    /\ UNCHANGED <<given, args, sent, reads, bun, polled, calls>>

QrRespond ==
    /\ op = "qr"
    /\ pc = "fetch"
    /\ \E d \in GetTimes, r \in QrResponses :
          /\ now' = now + d
          /\ response' = r
          /\ outcome' = Qr(r)
    /\ pc' = "done"
    /\ UNCHANGED <<op, start, interval, timeout, fetches, sleeps, exact, observed>>
    /\ ConfigKept
    /\ UNCHANGED <<given, args, sent, reads, bun, polled, calls>>

----------------------------------------------------------------------------
Next ==
    \/ \E i \in Intervals, t \in Timeouts : WaitFor(i, t)
    \/ LoopCheck
    \/ GetRespond
    \/ SleepDone
    \/ CallQr
    \/ QrRespond

Spec == Init /\ [][Next]_vars

\* The specification for termination: waitFor alone, answered from a subset of
\* GetResponses with a response for every way a poll can go (every task status,
\* a body without data, the JSON value null, invalid JSON, a binary response,
\* success and non-success statuses, a network failure), and fair: every fetch
\* is answered, every timer fires and the loop check is made.
LiveResponses ==
    { r \in GetResponses :
        \/ r = NetworkFailure
        \/ /\ r.contentType = Header(ImageSlash \o <<"p", "n", "g">>)
           /\ r.status = 500
           /\ r.body = InvalidJson
        \/ /\ r.contentType = JsonHeader
           /\ r.status = 404
           /\ r.body \in {InvalidJson, Null}
        \/ /\ r.contentType = JsonHeader
           /\ r.status \in {200, 404}
           /\ r.body \notin {InvalidJson, Null}
           /\ r.body.message = Null
           /\ r.body.statusMessage = Null
           /\ \/ r.body.data = Null
              \/ r.body.data.message = Null /\ r.body.data.error = Null }

LiveNext ==
    \/ \E i \in Intervals, t \in Timeouts : WaitFor(i, t)
    \/ LoopCheck
    \/ GetRespondFrom(LiveResponses)
    \/ SleepDone

FairSpec ==
    /\ Init
    /\ [][LiveNext]_vars
    /\ WF_vars(LoopCheck)
    /\ WF_vars(GetRespondFrom(LiveResponses))
    /\ WF_vars(SleepDone)

----------------------------------------------------------------------------
(* The clients from their construction on. *)

NewCludz ==
    /\ pc = "new"
    /\ \E options \in CludzOptions :
          LET c == CludzConstructor(options)
          IN /\ given' = options
             /\ IF c.kind = "throw"
                THEN /\ op' = "new Cludz"
                     /\ pc' = "done"
                     /\ outcome' = c
                     /\ cludz' = cludz
                ELSE /\ op' = op
                     /\ pc' = "idle"
                     /\ outcome' = outcome
                     /\ cludz' = c.value
    /\ UNCHANGED <<now, start, interval, timeout, response, fetches, sleeps, exact, observed,
                   store, args, sent, reads, bun, polled, calls>>

NewStorage ==
    /\ pc = "new"
    /\ \E options \in StorageOptions :
          LET c == StorageConstructor(options)
          IN /\ given' = options
             /\ IF c.kind = "throw"
                THEN /\ op' = "new Storage"
                     /\ pc' = "done"
                     /\ outcome' = c
                     /\ store' = store
                ELSE /\ op' = op
                     /\ pc' = "idle"
                     /\ outcome' = outcome
                     /\ store' = c.value
    /\ UNCHANGED <<now, start, interval, timeout, response, fetches, sleeps, exact, observed,
                   cludz, args, sent, reads, bun, polled, calls>>

\* A call runs up to its fetch, or ends before it.
Runs(name, arguments, call) ==
    /\ op' = name
    /\ args' = arguments
    /\ pc' = call.next
    /\ outcome' = call.outcome
    /\ sent' = sent \o call.sent
    /\ fetches' = fetches + Len(call.sent)
    /\ reads' = reads + call.reads
    /\ ConfigKept
    /\ UNCHANGED <<now, start, interval, timeout, response, sleeps, exact, observed, given, bun, polled, calls>>

CallRequest ==
    /\ op = "none"
    /\ pc = "idle"
    /\ cludz /= NoClient
    /\ \E options \in RequestCalls :
          Runs("_request", [endpoint |-> Endpoint, options |-> options],
               Request(cludz, Endpoint, options, 0))

CallImage ==
    /\ op = "none"
    /\ pc = "idle"
    /\ cludz /= NoClient
    /\ \E method \in ImageMethods, source \in Sources, read \in Reads(bun) :
          Runs(method, [source |-> source, read |-> read],
               ImageMethod(cludz, method, source, read))

CallUpload ==
    /\ op = "none"
    /\ pc = "idle"
    /\ store /= NoClient
    /\ \E dir \in Directories, source \in Sources, fileName \in FileNames,
          read \in Reads(FALSE) :
          Runs("upload",
               [targetDirectory |-> dir, source |-> source, fileName |-> fileName,
                read |-> read],
               Upload(store, dir, source, fileName, bun, read))

\* The fetch of a _request call or of an image method is answered.
RequestRespond ==
    /\ op \in {"_request"} \cup ImageMethods
    /\ pc = "fetch"
    /\ \E d \in GetTimes, r \in ClientResponses :
          /\ now' = now + d
          /\ response' = r
          /\ outcome' = _request(r)
    /\ pc' = "done"
    /\ ConfigKept
    /\ UNCHANGED <<op, start, interval, timeout, fetches, sleeps, exact, observed,
                   given, args, sent, reads, bun, polled, calls>>

\* The fetch of an upload is answered.  A Bun.file handle is read only now,
\* when fetch builds the body: fetch rejects when that read fails.
UploadRespond ==
    /\ op = "upload"
    /\ pc = "fetch"
    /\ LET lazy == sent[1].body.parts[1].value.t = "BunFile"
       IN /\ reads' = IF lazy THEN reads + 1 ELSE reads
          /\ \E d \in GetTimes, r \in StorageResponses :
                /\ now' = now + d
                /\ IF lazy /\ args.read /= "ok"
                   THEN /\ response' = NoResponse
                        /\ outcome' = Throw(ReadError)
                   ELSE /\ response' = r
                        /\ outcome' = UploadResult(r)
    /\ pc' = "done"
    /\ ConfigKept
    /\ UNCHANGED <<op, start, interval, timeout, fetches, sleeps, exact, observed,
                   given, args, sent, bun, polled, calls>>

CallStorage ==
    /\ op = "none"
    /\ pc = "idle"
    /\ store /= NoClient
    /\ \E name \in StorageOps, path \in Directories, arg \in NewNames :
          Runs(name, [path |-> path, name |-> arg], StorageCall(store, name, path, arg))

\* The fetch of a delete, createFolder, createFile, rename, list or download
\* is answered.
StorageRespond ==
    /\ op \in StorageOps
    /\ pc = "fetch"
    /\ \E d \in GetTimes, r \in StorageResponses :
          /\ now' = now + d
          /\ response' = r
          /\ outcome' = StorageResult(op, r)
    /\ pc' = "done"
    /\ ConfigKept
    /\ UNCHANGED <<op, start, interval, timeout, fetches, sleeps, exact, observed,
                   given, args, sent, reads, bun, polled, calls>>

ClientInit ==
    /\ op = "none"
    /\ pc = "new"
    /\ now = 0
    /\ start = 0
    /\ interval = 0
    /\ timeout = 0
    /\ response = NoResponse
    /\ outcome = Unsettled
    /\ fetches = 0
    /\ sleeps = 0
    /\ exact = TRUE
    /\ observed = <<>>
    /\ cludz = NoClient
    /\ store = NoClient
    /\ given = NoOptions
    /\ args = NoArgs
    /\ sent = <<>>
    /\ reads = 0
    /\ bun \in BOOLEAN
    /\ polled = 0
    /\ calls = NoCalls

\* One client is built, then one call is made on it and followed to its end:
\* a _request call, an image method, a Storage operation or a waitFor.
ClientNext ==
    \/ NewCludz
    \/ NewStorage
    \/ CallRequest
    \/ CallImage
    \/ CallUpload
    \/ RequestRespond
    \/ UploadRespond
    \/ CallStorage
    \/ StorageRespond
    \/ cludz /= NoClient /\ \E i \in Intervals, t \in Timeouts : WaitFor(i, t)
    \/ LoopCheck
    \/ GetRespondFrom(LiveResponses)
    \/ SleepDone

ClientSpec == ClientInit /\ [][ClientNext]_vars

----------------------------------------------------------------------------
(* Two waitFor calls in flight on one client.  JavaScript runs each piece of a
   call between two awaits to its end before the next piece of any call starts;
   the pieces of the two calls interleave in any order, and the clock advances
   between them. *)

\* The clock stops here: late enough for the timeout to pass.
PairHorizon == MaxTimeout

\* The parameters of the two calls: timeouts that allow one poll and two.
PairIntervals == {MaxInterval - 1}
PairTimeouts == {MaxTimeout - 2, MaxTimeout - 1}

\* What the gets of the two calls are answered with: the task in each of its
\* states, or a network failure.
PairResponses ==
    {NetworkFailure}
        \cup [kind : {"http"}, contentType : {JsonHeader}, status : {200},
              body : [t : {"object"}, message : {Null}, statusMessage : {Null},
                      data : [t : {"task"}, status : {"Pending", "Completed", "Failed"},
                              message : {Null}, error : {Null}]]]

\* Mutant: start kept in one place for all the calls of the client, where
\* the call that began last has written it.
StartOfLatest(c) ==
    LET running == { d \in Callers : calls[d].pc /= "idle" }
        latest == CHOOSE d \in running : \A o \in running : calls[o].began <= calls[d].began
    IN calls[latest].start

\* start, a const of the invocation
StartOf(c) == calls[c].start

\* The concurrent calls leave the client and the single call of the other
\* specifications alone.
PairFrame ==
    /\ ConfigKept
    /\ UNCHANGED <<op, pc, start, interval, timeout, response, outcome, fetches, sleeps, exact,
                   observed, given, args, sent, reads, bun, polled>>

\* const start = Date.now()
PairWaitFor(c, i, t) ==
    /\ calls[c].pc = "idle"
    /\ calls' = [calls EXCEPT ![c] = [@ EXCEPT !.pc = "check", !.start = now, !.began = now,
                                                !.interval = i, !.timeout = t]]
    /\ UNCHANGED now
    /\ PairFrame

\* while (Date.now() - start < timeout), then this.get(id) or the throw
PairLoopCheck(c) ==
    /\ calls[c].pc = "check"
    /\ calls' = [calls EXCEPT ![c] =
                    IF LoopContinues(now - StartOf(c), @.timeout)
                    THEN [@ EXCEPT !.pc = "fetch", !.fetches = @ + 1,
                                   !.clocks = Append(@, now)]
                    ELSE [@ EXCEPT !.pc = "done",
                                   !.outcome = Throw(Err(TimeoutMessage(calls[c].timeout))),
                                   !.clocks = Append(@, now)]]
    /\ UNCHANGED now
    /\ PairFrame

\* The get of call c settles; the rest of the loop body runs up to the sleep.
PairGetResponds(c, r) ==
    /\ calls[c].pc = "fetch"
    /\ LET p == Poll(Get(r))
       IN calls' = [calls EXCEPT ![c] =
                       [@ EXCEPT !.pc = p.next, !.outcome = p.outcome,
                                 !.sleeps = IF p.next = "sleep" THEN @ + 1 ELSE @,
                                 !.wake = now + SleepDelay(calls[c].interval),
                                 !.answers = Append(@, r)]]
    /\ UNCHANGED now
    /\ PairFrame

\* The timer of call c fires, no earlier than it was set for.
PairSleepDone(c) ==
    /\ calls[c].pc = "sleep"
    /\ now >= calls[c].wake
    /\ calls' = [calls EXCEPT ![c].pc = "check"]
    /\ UNCHANGED now
    /\ PairFrame

PairTick ==
    /\ now < PairHorizon
    /\ now' = now + 1
    /\ UNCHANGED calls
    /\ PairFrame

PairNext ==
    \/ \E c \in Callers, i \in PairIntervals, t \in PairTimeouts : PairWaitFor(c, i, t)
    \/ \E c \in Callers : PairLoopCheck(c)
    \/ \E c \in Callers, r \in PairResponses : PairGetResponds(c, r)
    \/ \E c \in Callers : PairSleepDone(c)
    \/ PairTick

PairSpec == Init /\ [][PairNext]_vars

----------------------------------------------------------------------------
TypeOK ==
    /\ op \in {"none", "qr", "waitFor", "new Cludz", "new Storage", "_request", "upload"}
               \cup ImageMethods \cup StorageOps
    /\ pc \in {"new", "idle", "check", "fetch", "sleep", "done"}
    /\ now \in Nat
    /\ fetches \in 0..MaxPolls
    /\ sleeps \in 0..MaxPolls
    /\ outcome.kind \in {"pending", "return", "throw"}
    /\ (pc = "done") = (outcome /= Unsettled)
    /\ fetches = IF op = "waitFor" THEN Len(observed) + (IF pc = "fetch" THEN 1 ELSE 0)
                 ELSE IF op = "qr" THEN 1
                 ELSE Len(sent)
    /\ reads \in 0..1
    /\ polled \in Nat
    /\ \A c \in Callers : calls[c].pc \in {"idle", "check", "fetch", "sleep", "done"}

\* The cap on fetches in LoopCheck is never what stops a poll.
FetchesBelowCap ==
    (op = "waitFor" /\ pc = "check" /\ LoopContinues(Elapsed, timeout)) => fetches < MaxPolls

----------------------------------------------------------------------------
(* Properties. *)

Last(seq) == seq[Len(seq)]
InProgress == {"Pending", "Processing"}
WaitForDone == op = "waitFor" /\ pc = "done"
TimeoutError == Throw(Err("Task timeout after " \o ToString(timeout) \o "ms"))

\* Every get of the call so far resolved with an ApiResponse that carries a task.
EveryGetSucceeded == \A i \in 1..Len(observed) : observed[i] \in TaskStatuses

\* An ended call issues no request, starts no sleep and keeps its outcome.
EndedCallIsOver ==
    pc = "done" => /\ pc' = "done"
                   /\ fetches' = fetches
                   /\ sleeps' = sleeps
                   /\ outcome' = outcome

\* The text JavaScript's a || b || c picks, written out.
FirstNonEmpty(a, b, c) ==
    IF a /= Null /\ a /= Str("") THEN a.v
    ELSE IF b /= Null /\ b /= Str("") THEN b.v
    ELSE c

\* C1: when the polls of a waitFor call observe Pending and Processing snapshots
\* and then a Completed one, the call returns exactly that snapshot (the data
\* field of that get's response), and it issues no get after it: the Completed
\* poll is the last one, and an ended call issues nothing.
C1_ReturnsCompleted ==
    \A i \in 1..Len(observed) :
        observed[i] = "Completed" =>
            /\ i = Len(observed)
            /\ \A j \in 1..(i - 1) : observed[j] \in InProgress
            /\ pc = "done"
            /\ response.body.data.status = "Completed"
            /\ outcome = Return(response.body.data)
            /\ fetches = i
C1_CompletedIsReturned == []C1_ReturnsCompleted /\ [][EndedCallIsOver]_vars
C1_Witness ==
    /\ WaitForDone
    /\ observed = <<"Pending", "Processing", "Completed">>
    /\ outcome.kind = "return"
    /\ fetches = 3

\* C2: a poll that observes Failed ends the call at once with an Error whose
\* message is the snapshot's message if non-empty, else its error if non-empty,
\* else "Task failed"; no sleep follows that poll and no further get.
C2_ThrowsOnFailed ==
    \A i \in 1..Len(observed) :
        observed[i] = "Failed" =>
            /\ i = Len(observed)
            /\ pc = "done"
            /\ LET task == response.body.data
               IN /\ task.status = "Failed"
                  /\ outcome = Throw(Err(FirstNonEmpty(task.message, task.error, "Task failed")))
            /\ fetches = i
            /\ sleeps = i - 1
C2_FailedThrowsAtOnce == []C2_ThrowsOnFailed /\ [][EndedCallIsOver]_vars
C2_Witness ==
    /\ WaitForDone
    /\ observed = <<"Pending", "Failed">>
    /\ response.body.data.message = Str("")
    /\ response.body.data.error = Str("task error")
    /\ outcome = Throw(Err("task error"))
    /\ sleeps = 1

\* C3: a call whose gets all succeed and never observe Completed or Failed ends
\* by throwing Error("Task timeout after <timeout>ms") with the timeout argument
\* of the call, not before the elapsed time reached timeout; and a loop check
\* made once the elapsed time exceeds timeout throws it.
C3_EndsByTimeout ==
    (WaitForDone /\ \A i \in 1..Len(observed) : observed[i] \in InProgress) =>
        /\ outcome = TimeoutError
        /\ Elapsed >= timeout
C3_ThrowsOnceExceeded ==
    (op = "waitFor" /\ pc = "check" /\ Elapsed > timeout) =>
        (pc' = "done" /\ outcome' = TimeoutError /\ fetches' = fetches)
C3_TimeoutError == []C3_EndsByTimeout /\ [][C3_ThrowsOnceExceeded]_vars
C3_Witness ==
    /\ WaitForDone
    /\ observed = <<"Pending", "Processing">>
    /\ timeout = 3
    /\ Elapsed > 3
    /\ outcome = Throw(Err("Task timeout after 3ms"))

\* C4: when every get succeeds, a waitFor call ends in exactly one of three
\* ways: it returns a Completed snapshot (the last one observed), it throws the
\* error built from a Failed snapshot (the last one observed), or it throws the
\* timeout error (no Completed or Failed observed); it never returns a snapshot
\* whose status is Pending, Processing or Failed.
C4_ReturnedCompleted ==
    /\ outcome.kind = "return"
    /\ outcome.value \in TaskStates
    /\ outcome.value.status = "Completed"
    /\ Len(observed) > 0
    /\ Last(observed) = "Completed"
C4_ThrewFailed ==
    /\ outcome.kind = "throw"
    /\ Len(observed) > 0
    /\ Last(observed) = "Failed"
    /\ outcome.error = Err(FirstNonEmpty(response.body.data.message,
                                         response.body.data.error, "Task failed"))
C4_ThrewTimeout ==
    /\ outcome = TimeoutError
    /\ \A i \in 1..Len(observed) : observed[i] \in InProgress
C5_Terminates == (op = "waitFor") ~> (pc = "done")
C5_Witness ==
    /\ WaitForDone
    /\ observed = <<"Pending", "Pending", "Pending">>
    /\ ~exact

\* C6: a get that rejects ends the call at that poll with that same error: it
\* is the last poll, no sleep follows it and no retry, also when time remains
\* before the deadline.
C6_RejectionEndsCall ==
    \A i \in 1..Len(observed) :
        observed[i] = "rejected" =>
            /\ i = Len(observed)
            /\ pc = "done"
            /\ Get(response).kind = "throw"
            /\ outcome = Get(response)
            /\ fetches = i
            /\ sleeps = i - 1
C6_GetErrorPropagates == []C6_RejectionEndsCall /\ [][EndedCallIsOver]_vars
C6_Witness ==
    /\ WaitForDone
    /\ observed = <<"Pending", "rejected">>
    /\ response = NetworkFailure
    /\ outcome = Throw(NetworkErr)
    /\ Elapsed < timeout

\* C7: with positive interval and timeout, gets that take no time and sleeps
\* that last exactly interval, a call on a task that stays Pending throws the
\* timeout error at an elapsed time t with
\* timeout - interval <= t <= timeout + interval.
C7_TimeoutWithinOneInterval ==
    (/\ WaitForDone
     /\ exact
     /\ interval > 0
     /\ timeout > 0
     /\ \A i \in 1..Len(observed) : observed[i] = "Pending") =>
        /\ outcome = TimeoutError
        /\ timeout - interval <= Elapsed
        /\ Elapsed <= timeout + interval
C7_Witness ==
    /\ WaitForDone
    /\ exact
    /\ interval = 1
    /\ timeout = 2
    /\ observed = <<"Pending", "Pending">>
    /\ outcome = TimeoutError
    /\ Elapsed = 2

C9_FailedRequestThrows ==
    (op = "qr" /\ pc = "done" /\ response.kind = "http" /\ ~Ok(response.status)) =>
        outcome.kind = "throw"

\* C10: a dispatcher call whose response is not image/PDF and has a JSON body
\* throws, on a non-success status, an Error whose message is the body's message
\* if non-empty, else its statusMessage if non-empty, else "API Error: <status>";
\* on a success status it returns the parsed body.
JsonBodyOf(body) == body /= InvalidJson
FieldOf(body, name) == IF body = Null THEN Null ELSE body[name]
C10_JsonErrorMessage ==
    (/\ op = "qr"
     /\ pc = "done"
     /\ response.kind = "http"
     /\ ~IsBinary(response.contentType)
     /\ JsonBodyOf(response.body)) =>
        IF Ok(response.status)
        THEN outcome = Return(response.body)
        ELSE outcome = Throw(Err(FirstNonEmpty(FieldOf(response.body, "message"),
                                               FieldOf(response.body, "statusMessage"),
                                               "API Error: " \o ToString(response.status))))

----------------------------------------------------------------------------
(* Properties of the constructors and of request building (ClientSpec). *)

\* A _request call, or an image method, has handed its request to fetch.
RequestSent == op \in {"_request"} \cup ImageMethods /\ sent /= <<>>

\* String(value) of the values of QueryValues that are neither null nor
\* undefined, written out.
StringOf(value) ==
    CASE value = Num(0) -> "0"
      [] value = Bool(FALSE) -> "false"
      [] value = Str("") -> ""
      [] value = Str("a") -> "a"
      [] value = JsObject(<<>>) -> "[object Object]"

\* C11: for every query map passed to _request, the query string of the
\* request URL holds exactly the pairs key=String(value) of the entries whose
\* value is neither null nor undefined (0, false and "" included), in the
\* order of the entries, and no pair for an entry that is null or undefined.
C11_QueryPairs ==
    (op = "_request" /\ sent /= <<>> /\ args.options.query /= Undefined) =>
        LET entries == args.options.query.entries
            kept == SelectSeq(entries, LAMBDA e : e[2] \notin {Undefined, Null})
            params == sent[1].url.searchParams
        IN /\ Len(params) = Len(kept)
           /\ \A i \in 1..Len(kept) : params[i] = <<kept[i][1], StringOf(kept[i][2])>>

\* A query whose first entry is null and whose second is 0 gave the one pair
\* b=0.
C11_Witness ==
    /\ op = "_request"
    /\ sent /= <<>>
    /\ args.options.query = JsObject(<<<<"a", Null>>, <<"b", Num(0)>>>>)
    /\ sent[1].url.searchParams = <<<<"b", "0">>>>

\* An option is missing or empty.
Missing(x) == x = Undefined \/ x = Text(<<>>)

\* The constructor of the class was called (with the options in given).
Constructing(class) ==
    /\ given /= NoOptions
    /\ ("id" \in DOMAIN given) = (class = "Storage")

\* The constructor threw the message: the call ended, no client exists and
\* nothing went to the network.
ThrewAtConstruction(message) ==
    /\ pc = "done"
    /\ op \in {"new Cludz", "new Storage"}
    /\ outcome = Throw(Err(message))
    /\ cludz = NoClient
    /\ store = NoClient
    /\ sent = <<>>
    /\ fetches = 0

\* C12: new Cludz with a missing or empty api throws "API URL is required";
\* new Storage throws when api, id or token is missing or empty, the first of
\* them in that order deciding the message; no client exists afterwards and no
\* network call was made.
C12_ConstructionFails ==
    /\ (Constructing("Cludz") /\ Missing(given.api)) =>
           ThrewAtConstruction("API URL is required")
    /\ (Constructing("Storage") /\ Missing(given.api)) =>
           ThrewAtConstruction("API URL is required")
    /\ (Constructing("Storage") /\ ~Missing(given.api) /\ Missing(given.id)) =>
           ThrewAtConstruction("Storage ID is required")
    /\ (Constructing("Storage") /\ ~Missing(given.api) /\ ~Missing(given.id)
            /\ Missing(given.token)) =>
           ThrewAtConstruction("Token is required")

\* new Storage with api given and neither id nor token threw for the id.
C12_Witness ==
    /\ Constructing("Storage")
    /\ ~Missing(given.api)
    /\ Missing(given.id)
    /\ Missing(given.token)
    /\ ThrewAtConstruction("Storage ID is required")

NonEmptyString(x) == x.t = "text" /\ x.cs /= <<>>

\* C13: for every client whose construction succeeded the required fields are
\* non-empty strings: baseUrl of the main client; api, id and token of the
\* storage client.
C13_ConfigNonEmpty ==
    /\ cludz /= NoClient => NonEmptyString(cludz.baseUrl)
    /\ store /= NoClient =>
           /\ NonEmptyString(store.api)
           /\ NonEmptyString(store.id)
           /\ NonEmptyString(store.token)

\* C14: for every api the constructor of the main client accepts, the stored
\* baseUrl does not end with "/".
C14_NoTrailingSlash ==
    cludz /= NoClient =>
        (cludz.baseUrl.cs = <<>> \/ cludz.baseUrl.cs[Len(cludz.baseUrl.cs)] /= "/")

\* C15: after construction no step of any call (a _request call, an image
\* method, an upload, a waitFor with its gets) changes baseUrl or key of the
\* main client, or api, id or token of the storage client.
C15_ConfigImmutable ==
    [][/\ cludz /= NoClient => cludz' = cludz
       /\ store /= NoClient => store' = store]_vars

\* A waitFor that slept and polled again has ended, and the client still has
\* the key and the base URL the constructor set.
C15_Witness ==
    /\ op = "waitFor"
    /\ pc = "done"
    /\ sleeps > 0
    /\ given.key = Text(<<"k">>)
    /\ cludz = CludzConstructor(given).value

\* The headers of the request with the name.
Named(headers, name) == { h \in headers : h.name = name }

\* C16: every request sent by _request carries Accept: application/json, and
\* carries X-API-Key, with the key as its value, if and only if a non-empty
\* key was given at construction.
C16_Headers ==
    RequestSent =>
        \A i \in 1..Len(sent) :
            /\ Named(sent[i].headers, "Accept") =
                   {HeaderField("Accept", Str("application/json"))}
            /\ Named(sent[i].headers, "X-API-Key") =
                   IF given.key \in {Undefined, Text(<<>>)} THEN {}
                   ELSE {HeaderField("X-API-Key", given.key)}

\* A client built with the empty key has sent a request without X-API-Key.
C16_Witness ==
    /\ RequestSent
    /\ given.key = Text(<<>>)
    /\ Named(sent[1].headers, "X-API-Key") = {}
    /\ Named(sent[1].headers, "Accept") /= {}

\* JSON.stringify of the bodies of RequestBodies that are no FormData, written
\* out.
JsonOf(body) ==
    CASE body = Num(0) -> "0"
      [] body = Num(7) -> "7"
      [] body = Str("") -> "\"\""
      [] body = Str("a") -> "\"a\""
      [] body = Bool(FALSE) -> "false"
      [] body = Bool(TRUE) -> "true"
      [] OTHER -> "{\"id\":7,\"name\":\"n\"}"

\* C17: for every _request call with a body: a FormData is sent unchanged and
\* no Content-Type is set; of any other body the JSON serialization is sent,
\* with Content-Type: application/json; the method is the one given, or GET
\* when none is given.
C17_BodyAndMethod ==
    (op = "_request" /\ sent /= <<>> /\ args.options.body \notin {Undefined, Null}) =>
        LET body == args.options.body
            method == args.options.method
        IN /\ IF body.t = "FormData"
              THEN /\ sent[1].body = body
                   /\ Named(sent[1].headers, "Content-Type") = {}
              ELSE /\ sent[1].body = Str(JsonOf(body))
                   /\ Named(sent[1].headers, "Content-Type") =
                          {HeaderField("Content-Type", Str("application/json"))}
           /\ sent[1].method = IF method = Undefined THEN "GET" ELSE method.v

----------------------------------------------------------------------------
(* Properties of source resolution (ClientSpec). *)

\* The errors resolveImage and resolveFile themselves end with, over all
\* sources, runtimes and ways a read can go.
ImageResolutionErrors ==
    { resolveImage(s, r).result.error :
        <<s, r>> \in { x \in Sources \X Reads(TRUE) :
                         resolveImage(x[1], x[2]).result.kind = "throw" } }
FileResolutionErrors ==
    { resolveFile(x[1], DefaultName, x[2], x[3]).result.error :
        x \in { y \in Sources \X BOOLEAN \X Reads(FALSE) :
                  resolveFile(y[1], DefaultName, y[2], y[3]).result.kind = "throw" } }

\* The call ended with an error of source resolution.
ResolutionFailed ==
    /\ pc = "done"
    /\ outcome.kind = "throw"
    /\ \/ op \in ImageMethods /\ outcome.error \in ImageResolutionErrors
       \/ op = "upload" /\ outcome.error \in FileResolutionErrors

Posted == sent[1].body.parts[1].value

\* C19: resolveImage returns a string that starts with "http://" or
\* "https://" unchanged and reads no file; reads any other string from the
\* local filesystem into a byte payload; returns a Blob or File unchanged;
\* turns a Buffer into a byte payload of the same bytes; throws the
\* invalid-image-source-type error for any other type.
C19_ImageSource ==
    op \in ImageMethods =>
        LET source == args.source
            url == /\ source.t = "text"
                   /\ \/ /\ Len(source.cs) >= 7
                         /\ SubSeq(source.cs, 1, 7) = <<"h", "t", "t", "p", ":", "/", "/">>
                      \/ /\ Len(source.cs) >= 8
                         /\ SubSeq(source.cs, 1, 8) = <<"h", "t", "t", "p", "s", ":", "/", "/">>
        IN CASE url ->
                  /\ reads = 0
                  /\ sent /= <<>> => Posted = source
             [] source.t = "text" /\ ~url ->
                  /\ reads = 1
                  /\ IF args.read = "ok"
                     THEN sent /= <<>> => Posted = [t |-> "Blob", bytes |-> FileBytes]
                     ELSE /\ sent = <<>>
                          /\ pc = "done"
                          /\ outcome.kind = "throw"
             [] source.t \in {"Blob", "File"} ->
                  /\ reads = 0
                  /\ sent /= <<>> => Posted = source
             [] source.t = "Buffer" ->
                  /\ reads = 0
                  /\ sent /= <<>> => Posted = [t |-> "Blob", bytes |-> source.bytes]
             [] OTHER ->
                  /\ reads = 0
                  /\ sent = <<>>
                  /\ pc = "done"
                  /\ outcome = Throw(Err("Invalid image source type. Supported: URL string, local path string, Buffer, or Blob/File."))

\* An https URL went into the form as it was, with no file read.
C19_Witness ==
    /\ op \in ImageMethods
    /\ args.source = Text(HttpsPrefix \o <<"x">>)
    /\ sent /= <<>>
    /\ Posted = args.source
    /\ reads = 0

\* C20: resolveFile treats every string, one starting with "http://" or
\* "https://" included, as a local path to read and never as a remote URL;
\* Blob, File and Buffer sources pass through with their bytes unchanged; any
\* other type throws the invalid-file-source-type error.
C20_FileSource ==
    op = "upload" =>
        LET source == args.source
        IN CASE source.t = "text" ->
                  /\ sent /= <<>> =>
                         \/ Posted.t = "File" /\ Posted.bytes = FileBytes
                         \/ Posted.t = "BunFile" /\ Posted.path = source.cs
                  /\ (~bun \/ (pc = "done" /\ sent /= <<>>)) => reads = 1
                  /\ (~bun /\ args.read /= "ok") =>
                         /\ sent = <<>>
                         /\ outcome = Throw(Err("Failed to read local file path: ENOENT: no such file or directory"))
             [] source.t \in {"Blob", "File"} ->
                  /\ reads = 0
                  /\ sent /= <<>> => Posted = source
             [] source.t = "Buffer" ->
                  /\ reads = 0
                  /\ sent /= <<>> => (Posted.t = "Blob" /\ Posted.bytes = source.bytes)
             [] OTHER ->
                  /\ reads = 0
                  /\ sent = <<>>
                  /\ pc = "done"
                  /\ outcome = Throw(Err("Invalid file source type. Supported: local path string, Buffer, or Blob/File."))

\* On Node an upload of the source "http://x" read a local file of that
\* name and posted its bytes.
C20_Witness ==
    /\ op = "upload"
    /\ ~bun
    /\ args.source = Text(HttpPrefix \o <<"x">>)
    /\ sent /= <<>>
    /\ Posted.t = "File"
    /\ Posted.bytes = FileBytes
    /\ reads = 1

----------------------------------------------------------------------------
(* The polls of one waitFor call. *)

\* The polls so far that found the task still in progress.
InProgressPolls == {i \in 1..Len(observed) : observed[i] \in InProgress}

\* C26: the polls of one waitFor call are strictly sequential and spaced.  At
\* most one get is in flight; a poll starts only from the loop check, after the
\* previous get was answered and the sleep that followed it completed, and at
\* least interval after the previous poll started; a poll that observes Pending
\* or Processing is followed by exactly one sleep, which lasts at least
\* interval.
C26_OneInFlight ==
    op = "waitFor" =>
        /\ fetches - Len(observed) = (IF pc = "fetch" THEN 1 ELSE 0)
        /\ sleeps = Cardinality(InProgressPolls)
        /\ pc = "sleep" => (Len(observed) > 0 /\ Last(observed) \in InProgress)
C26_PollStart ==
    (op = "waitFor" /\ fetches' = fetches + 1) =>
        /\ pc = "check"
        /\ pc' = "fetch"
        /\ Len(observed) = fetches
        /\ sleeps = fetches
        /\ polled' = now
        /\ fetches > 0 => now - polled >= interval
C26_SleepFollows ==
    (op = "waitFor" /\ Len(observed') = Len(observed) + 1) =>
        /\ pc = "fetch"
        /\ IF Last(observed') \in InProgress
           THEN pc' = "sleep" /\ sleeps' = sleeps + 1
           ELSE pc' = "done" /\ sleeps' = sleeps
C26_SleepLasts ==
    (op = "waitFor" /\ pc = "sleep" /\ pc' /= "sleep") =>
        /\ pc' = "check"
        /\ now' - now >= interval
        /\ sleeps' = sleeps
        /\ fetches' = fetches
C26_SequentialPolls ==
    /\ []C26_OneInFlight
    /\ [][C26_PollStart /\ C26_SleepFollows /\ C26_SleepLasts]_vars
C26_Witness ==
    /\ op = "waitFor"
    /\ pc = "fetch"
    /\ fetches = 2
    /\ observed = <<"Processing">>
    /\ sleeps = 1
    /\ interval = 2
    /\ polled - start >= 2

C28_LatePollCounts ==
    (WaitForDone /\ Len(observed) > 0) =>
        /\ Last(observed) = "Completed" => outcome = Return(response.body.data)
        /\ Last(observed) = "Failed" =>
              outcome = Throw(Err(TaskFailedMessage(response.body.data)))
        /\ Last(observed) \in {"Completed", "Failed", "rejected", "malformed"} =>
              outcome /= TimeoutError
C28_TimeoutAtLoopCheck ==
    (op = "waitFor" /\ pc /= "done" /\ outcome' = TimeoutError) =>
        /\ pc = "check"
        /\ Elapsed >= timeout
        /\ fetches' = fetches
        /\ observed' = observed
C28_DeadlineBeforePoll == []C28_LatePollCounts /\ [][C28_TimeoutAtLoopCheck]_vars
C28_Witness ==
    /\ WaitForDone
    /\ Len(observed) > 0
    /\ Last(observed) = "Completed"
    /\ timeout = 1
    /\ Elapsed > timeout
    /\ outcome.kind = "return"

\* C29: a dispatcher response whose content-type names neither an image nor a
\* PDF (a missing content-type included) and whose body is not valid JSON ends
\* the call with the JSON parse error, for every status.
C29_ParseErrorPropagates ==
    (/\ op = "qr"
     /\ pc = "done"
     /\ response /= NetworkFailure
     /\ ~IsBinary(response.contentType)
     /\ response.body = InvalidJson) =>
        outcome = Throw(SyntaxErr)
C29_Witness ==
    /\ op = "qr"
    /\ pc = "done"
    /\ response /= NetworkFailure
    /\ response.contentType = NoHeader
    /\ response.status = 404
    /\ response.body = InvalidJson
    /\ outcome = Throw(SyntaxErr)

----------------------------------------------------------------------------
(* One request per call. *)

RequestOps == {"_request"} \cup ImageMethods

\* The errors that end a call before its fetch: the URL does not parse, or the
\* source of an image method does not resolve.
EndedBeforeFetch ==
    /\ outcome.kind = "throw"
    /\ \/ outcome = Throw(TypeErr("Invalid URL"))
       \/ op \in ImageMethods /\ outcome.error \in ImageResolutionErrors

\* C24 as stated: every _request call, and so every module method built on
\* it, issues exactly one HTTP request.
C24_ExactlyOneRequest ==
    (op \in RequestOps /\ pc = "done") => Len(sent) = 1

\* C24: a _request call, and a module method built on it, issues at most one
\* HTTP request and never a second: none when the call throws before its fetch
\* (the URL does not parse, the image source does not resolve), otherwise
\* exactly one; a transport error, a parse error and a non-success JSON
\* response each end the call with that error, after which nothing more is
\* sent.
C24_RequestSettles ==
    op \in RequestOps =>
        /\ Len(sent) <= 1
        /\ fetches = Len(sent)
        /\ pc = "fetch" => Len(sent) = 1
        /\ (pc = "done" /\ Len(sent) = 0) => EndedBeforeFetch
        /\ (pc = "done" /\ Len(sent) = 1) =>
              IF response = NetworkFailure THEN outcome = Throw(NetworkErr)
              ELSE IF IsBinary(response.contentType) THEN outcome.kind = "return"
              ELSE IF response.body = InvalidJson THEN outcome = Throw(SyntaxErr)
              ELSE IF ~Ok(response.status)
                   THEN outcome = Throw(Err(RequestErrorMessage(response)))
              ELSE outcome = Return(response.body)
C24_NothingAfterTheEnd ==
    (op \in RequestOps /\ pc = "done") => (sent' = sent /\ outcome' = outcome /\ pc' = "done")
C24_AtMostOneRequest == []C24_RequestSettles /\ [][C24_NothingAfterTheEnd]_vars
C24_Witness ==
    /\ op = "_request"
    /\ pc = "done"
    /\ Len(sent) = 1
    /\ response = NetworkFailure
    /\ outcome = Throw(NetworkErr)

\* C25: an image method that completes without throwing resolves to the raw
\* Response, for every response the server can send.
C25_ImageReturnsResponse ==
    (op \in ImageMethods /\ pc = "done" /\ outcome.kind = "return") =>
        outcome.value = RawResponse(response)

----------------------------------------------------------------------------
(* The Storage operations. *)

AllStorageOps == StorageOps \cup {"upload"}

\* "<Operation> failed: <status> <statusText> - <body text>" for the call and
\* the response of the state.
FailedMessage ==
    (CASE op = "upload" -> "Upload failed: "
       [] op = "delete" -> "Delete failed: "
       [] op = "createFolder" -> "Create folder failed: "
       [] op = "createFile" -> "Create file failed: "
       [] op = "rename" -> "Rename failed: "
       [] op = "list" -> "List failed: "
       [] OTHER -> "Download failed: ")
        \o ToString(response.status) \o " " \o StatusText(response.status) \o " - "
        \o ResponseText(response)

\* C21 as stated: a Storage operation whose source resolved issues exactly
\* one HTTP call, throws the "<Operation> failed" error for every non-success
\* status and throws nothing on a success status.
C21_ThrowsOnlyOnFailure ==
    (op \in AllStorageOps /\ pc = "done") =>
        /\ ~ResolutionFailed => Len(sent) = 1
        /\ response.kind = "http" =>
              IF ~Ok(response.status) THEN outcome = Throw(Err(FailedMessage))
              ELSE outcome.kind = "return"

\* C21: a Storage operation issues at most one HTTP call: none when the
\* source of an upload does not resolve or the URL is not absolute, otherwise
\* one.  When the call is answered with a non-success status it throws
\* Error("<Operation> failed: <status> <statusText> - <body text>"), whatever
\* the content-type; with a success status it throws nothing, except that list
\* throws the parse error for a body that is not JSON and a TypeError for the
\* JSON null.  When fetch rejects, the rejection ends the call.
C21_StorageErrors ==
    op \in AllStorageOps =>
        /\ Len(sent) <= 1
        /\ pc = "fetch" => Len(sent) = 1
        /\ (pc = "done" /\ Len(sent) = 0) =>
              (ResolutionFailed \/ outcome = Throw(TypeErr("Invalid URL")))
        /\ (pc = "done" /\ Len(sent) = 1 /\ response.kind /= "http") =>
              outcome \in {Throw(NetworkErr), Throw(ReadError)}
        /\ (pc = "done" /\ response.kind = "http") =>
              /\ Len(sent) = 1
              /\ IF ~Ok(response.status) THEN outcome = Throw(Err(FailedMessage))
                 ELSE IF op = "list" /\ response.body = InvalidJson
                      THEN outcome = Throw(SyntaxErr)
                 ELSE IF op = "list" /\ response.body = Null
                      THEN outcome.kind = "throw" /\ outcome.error.name = "TypeError"
                 ELSE outcome.kind = "return"
C21_Witness ==
    /\ op = "download"
    /\ pc = "done"
    /\ response.kind = "http"
    /\ response.status = 404
    /\ response.contentType = Header(ImageSlash \o <<"p", "n", "g">>)
    /\ response.body = InvalidJson
    /\ outcome = Throw(Err("Download failed: 404 Not Found - <html>"))

\* C22: the URL of every request a Storage operation issues begins with the
\* api option less one trailing slash, "/storage/", the id option and "/"; the
\* request carries the header Token with the token option, once, and no
\* X-API-Key header.
C22_StorageRequests ==
    (op \in AllStorageOps /\ sent /= <<>>) =>
        LET q == sent[1]
            prefix == StripSlash(given.api.cs) \o <<"/", "s", "t", "o", "r", "a", "g", "e", "/">>
                          \o given.id.cs \o <<"/">>
        IN /\ StartsWith(q.url.href, prefix)
           /\ q.url.searchParams = <<>>
           /\ HeaderField("Token", given.token) \in q.headers
           /\ \A h \in q.headers : h.name = "Token" => h.value = given.token
           /\ \A h \in q.headers : h.name /= "X-API-Key"
C22_Witness ==
    /\ op = "rename"
    /\ pc = "fetch"
    /\ sent /= <<>>
    /\ given.api = Text(Host \o <<"/">>)
    /\ args.path = <<"d">>
    /\ sent[1].url.href = Host \o <<"/", "s", "t", "o", "r", "a", "g", "e", "/", "i", "/", "d">>
    /\ sent[1].headers = {HeaderField("Token", Text(<<"t">>)),
                          HeaderField("Content-Type", Str("application/json"))}

----------------------------------------------------------------------------
(* Concurrent calls. *)

\* waitFor with timeout t, begun at clock reading s, run alone from its k-th
\* loop test on against the clock readings and the responses given: how it
\* ends, or that it has not ended, and the polls and sleeps it makes.
RECURSIVE Alone(_, _, _, _, _)
Alone(t, s, clocks, answers, k) ==
    IF k > Len(clocks)
    THEN [outcome |-> Unsettled, fetches |-> k - 1, sleeps |-> k - 1]
    ELSE IF ~LoopContinues(clocks[k] - s, t)
         THEN [outcome |-> Throw(Err("Task timeout after " \o ToString(t) \o "ms")),
               fetches |-> k - 1, sleeps |-> k - 1]
    ELSE IF k > Len(answers)
         THEN [outcome |-> Unsettled, fetches |-> k, sleeps |-> k - 1]
    ELSE LET p == Poll(Get(answers[k]))
         IN IF p.next = "done"
            THEN [outcome |-> p.outcome, fetches |-> k, sleeps |-> k - 1]
            ELSE Alone(t, s, clocks, answers, k + 1)

\* C23: in every interleaving of two waitFor calls on one client, each call
\* ends as it would alone against the clock readings and responses it was
\* given, with the same polls and sleeps; a step of one call changes nothing
\* of the other, and none changes the client.
C23_SameAsAlone ==
    \A c \in Callers :
        calls[c].pc /= "idle" =>
            LET a == Alone(calls[c].timeout, calls[c].began, calls[c].clocks,
                           calls[c].answers, 1)
            IN /\ calls[c].outcome = a.outcome
               /\ calls[c].fetches = a.fetches
               /\ calls[c].sleeps = a.sleeps
               /\ (calls[c].pc = "done") = (a.outcome /= Unsettled)
               /\ calls[c].start = calls[c].began
C23_OwnStateOnly ==
    /\ \A c \in Callers :
          calls'[c] /= calls[c] => \A d \in Callers \ {c} : calls'[d] = calls[d]
    /\ cludz' = cludz
C23_CallsAreIndependent == []C23_SameAsAlone /\ [][C23_OwnStateOnly]_vars

\* Two overlapping calls: the first polled twice and timed out while the
\* second, begun later, was between its polls; the second then completed.
C23_Witness ==
    /\ calls["first"].pc = "done"
    /\ calls["second"].pc = "done"
    /\ calls["first"].began < calls["second"].began
    /\ calls["second"].clocks[1] < calls["first"].clocks[Len(calls["first"].clocks)]
    /\ calls["first"].fetches = 2
    /\ calls["first"].outcome =
          Throw(Err("Task timeout after " \o ToString(calls["first"].timeout) \o "ms"))
    /\ calls["second"].fetches = 2
    /\ calls["second"].outcome.kind = "return"

====
